---- MODULE Spec2Model ----
(***************************************************************************)
(* Model of pychapa's synchronous client, class Chapa in                   *)
(* src/src/pychapa/clients/sync_client.py: the request dispatcher          *)
(* (_send_request), the response decoder (_extract_json_data,              *)
(* _check_response), the field validator (_check_data_fields), the twelve  *)
(* facade operations, the result records of clients/schema.py and close(). *)
(*                                                                         *)
(* Python and JSON values are tagged records.  A str is a sequence of      *)
(* atoms; an atom is "/" or a slash-free piece of text.  A dict is a       *)
(* sequence of <<key, value>> pairs in insertion order, read by key.       *)
(***************************************************************************)
EXTENDS Integers, Sequences, FiniteSets, TLC

(* ------------------------------ values -------------------------------- *)

None == [t |-> "null"]

Str(s) == [t |-> "str", s |-> s]

IntV(n) == [t |-> "int", n |-> n]

\* the float w.f, one fractional digit
FloatV(w, f) == [t |-> "float", w |-> w, f |-> f]

Dict(p) == [t |-> "dict", p |-> p]

List(l) == [t |-> "list", l |-> l]

\* a datetime.datetime built from the text or number s
DateTime(s) == [t |-> "datetime", s |-> s]

\* an instance of a pydantic model class, v: field name -> value
Model(cls, v) == [t |-> "model", cls |-> cls, v |-> v]

\* a keyword argument that was not passed, a key that is not there
Absent == [t |-> "absent"]

Range(s) == {s[i] : i \in 1..Len(s)}

\* Python truth value, as tested by `if x:`
Truthy(v) ==
    CASE v.t = "null" -> FALSE
      [] v.t = "str" -> v.s # <<>>
      [] v.t = "int" -> v.n # 0
      [] v.t = "float" -> ~(v.w = 0 /\ v.f = 0)
      [] v.t = "dict" -> v.p # <<>>
      [] v.t = "list" -> v.l # <<>>
      [] OTHER -> TRUE

Keys(d) == {d.p[i][1] : i \in 1..Len(d.p)}

HasKey(d, k) == k \in Keys(d)

\* dict.get(k, default)
DictGet(d, k, default) ==
    IF HasKey(d, k)
    THEN LET i == CHOOSE j \in 1..Len(d.p) : d.p[j][1] = k IN d.p[i][2]
    ELSE default

\* d[k] = v : replaces in place, or appends a new key
DictSet(d, k, v) ==
    IF HasKey(d, k)
    THEN Dict([i \in 1..Len(d.p) |-> IF d.p[i][1] = k THEN <<k, v>> ELSE d.p[i]])
    ELSE Dict(Append(d.p, <<k, v>>))

RECURSIVE DictUpdateFrom(_, _, _)
DictUpdateFrom(d, e, i) ==
    IF i > Len(e.p) THEN d
    ELSE DictUpdateFrom(DictSet(d, e.p[i][1], e.p[i][2]), e, i + 1)

\* d.update(e), {**d, **e}
DictUpdate(d, e) == DictUpdateFrom(d, e, 1)

(* ------------------------------ text ---------------------------------- *)

Digits == <<"0", "1", "2", "3", "4", "5", "6", "7", "8", "9">>

RECURSIVE NatStr(_)
NatStr(n) ==
    IF n < 10 THEN <<Digits[n + 1]>>
    ELSE Append(NatStr(n \div 10), Digits[(n % 10) + 1])

IntStr(n) == IF n < 0 THEN <<"-">> \o NatStr(-n) ELSE NatStr(n)

\* str(x) of a number or a str
PyStr(v) ==
    CASE v.t = "int" -> Str(IntStr(v.n))
      [] v.t = "float" -> Str(IntStr(v.w) \o <<".">> \o NatStr(v.f))
      [] OTHER -> v

UpperToLower ==
    ("E" :> "e") @@ ("T" :> "t") @@ ("B" :> "b") @@
    ("U" :> "u") @@ ("S" :> "s") @@ ("D" :> "d")

\* str.lower()
Lower(s) ==
    [i \in 1..Len(s) |->
        IF s[i] \in DOMAIN UpperToLower THEN UpperToLower[s[i]] ELSE s[i]]

RECURSIVE LStrip(_, _)
\* str.lstrip(c)
LStrip(s, c) ==
    IF s # <<>> /\ Head(s) = c THEN LStrip(Tail(s), c) ELSE s

IsDigit(c) == c \in Range(Digits)

DigitVal(c) == (CHOOSE i \in 1..10 : Digits[i] = c) - 1

RECURSIVE ParseNat(_, _)
ParseNat(s, acc) ==
    IF s = <<>> THEN acc ELSE ParseNat(Tail(s), acc * 10 + DigitVal(Head(s)))

AllDigits(s) == s # <<>> /\ \A i \in 1..Len(s) : IsDigit(s[i])

(* ------------------- src/pychapa/utils.py: endpoints ------------------- *)

EP_swap == <<"swap">>

EP_banks == <<"banks">>

EP_events == <<"events">>

EP_balances == <<"balances">>

EP_transfers == <<"transfers">>

EP_transactions == <<"transactions">>

EP_bulk_transfers == <<"bulk-transfers">>

EP_transfers_verify == <<"transfers", "/", "verify">>

\* Literal["get", "post"]
HttpMethod == {"get", "post"}

Ops ==
    {"init_payment", "verify_transaction", "create_subaccount",
     "get_transactions", "get_transaction_log", "init_transfer",
     "bulk_transfer", "verify_transfer", "get_transfers", "banks",
     "balances", "swap"}

(* --------------------------- payload builders -------------------------- *)

\* if x: payload["x"] = x
PutIfTruthyNull(payload, a, name) == DictSet(payload, name, a[name])

PutIfTruthy(payload, a, name) ==
    IF Truthy(a[name]) THEN DictSet(payload, name, a[name]) ELSE payload

RECURSIVE PutEach(_, _, _, _)
\* the run of `if x: payload["x"] = x` statements over names, in order
PutEach(payload, a, names, i) ==
    IF i > Len(names) THEN payload
    ELSE PutEach(PutIfTruthy(payload, a, names[i]), a, names, i + 1)

InitPaymentOptional ==
    <<"currency", "first_name", "last_name", "phone_number", "email",
      "callback_url", "return_url", "tx_ref", "customization",
      "subaccount_id", "meta">>

InitPaymentPayloadRaw(a) ==
    PutEach(Dict(<< <<"amount", a["amount"]>> >>), a, InitPaymentOptional, 1)

InitPaymentPayload(a) ==
    PutEach(Dict(<< <<"amount", PyStr(a["amount"])>> >>), a,
            InitPaymentOptional, 1)

CreateSubaccountPayload(a) ==
    PutEach(Dict(<< <<"account_name", a["account_name"]>>,
                    <<"bank_code", a["bank_code"]>>,
                    <<"account_number", a["account_number"]>>,
                    <<"split_value", a["split_value"]>>,
                    <<"split_type", a["split_type"]>> >>),
            a, <<"business_name">>, 1)

InitTransferOptional == <<"currency", "account_name", "reference">>

InitTransferPayload(a) ==
    PutEach(Dict(<< <<"account_number", a["account_number"]>>,
                    <<"amount", a["amount"]>>,
                    <<"bank_code", a["bank_code"]>> >>),
            a, InitTransferOptional, 1)

BulkTransferPayload(a) ==
    DictUpdate(PutEach(Dict(<<>>), a, <<"title", "currency">>, 1),
               Dict(<< <<"bulk_data", a["bulk_data"]>> >>))

SwapPayload(a) ==
    Dict(<< <<"amount", a["amount"]>>,
            <<"from", a["from_currency"]>>,
            <<"to", a["to_currency"]>> >>)

PageParams(a) ==
    Dict(<< <<"page", a["page"]>>, <<"per_page", a["per_page"]>> >>)

BalancesPathAsGiven(a) ==
    IF Truthy(a["currency"])
    THEN EP_balances \o <<"/">> \o a["currency"].s
    ELSE EP_balances

BalancesPath(a) ==
    IF Truthy(a["currency"])
    THEN EP_balances \o <<"/">> \o Lower(a["currency"].s)
    ELSE EP_balances

\* what each facade method hands to _send_request: method, path, kwargs
Facade(o, a) ==
    CASE o = "init_payment" ->
            [method |-> "post",
             path |-> <<"/", "transaction", "/", "initialize">>,
             kwargs |-> Dict(<< <<"json", InitPaymentPayload(a)>> >>)]
      [] o = "verify_transaction" ->
            [method |-> "get",
             path |-> <<"/", "transaction", "/", "verify", "/">> \o a["tx_ref"].s,
             kwargs |-> Dict(<<>>)]
      [] o = "create_subaccount" ->
            [method |-> "post", path |-> <<"/", "subaccount">>,
             kwargs |-> Dict(<< <<"json", CreateSubaccountPayload(a)>> >>)]
      [] o = "get_transactions" ->
            [method |-> "get", path |-> EP_transactions,
             kwargs |-> Dict(<< <<"params", PageParams(a)>> >>)]
      [] o = "get_transaction_log" ->
            [method |-> "get", path |-> EP_events \o <<"/">> \o a["tx_ref"].s,
             kwargs |-> Dict(<<>>)]
      [] o = "init_transfer" ->
            [method |-> "post", path |-> EP_transfers,
             kwargs |-> Dict(<< <<"json", InitTransferPayload(a)>> >>)]
      [] o = "bulk_transfer" ->
            [method |-> "post", path |-> EP_bulk_transfers,
             kwargs |-> Dict(<< <<"json", BulkTransferPayload(a)>> >>)]
      [] o = "verify_transfer" ->
            [method |-> "get",
             path |-> EP_transfers_verify \o <<"/">> \o a["tx_ref"].s,
             kwargs |-> Dict(<<>>)]
      [] o = "get_transfers" ->
            [method |-> "get", path |-> EP_transfers,
             kwargs |-> Dict(<< <<"params", PageParams(a)>> >>)]
      [] o = "banks" ->
            [method |-> "get", path |-> EP_banks, kwargs |-> Dict(<<>>)]
      [] o = "balances" ->
            [method |-> "get", path |-> BalancesPath(a), kwargs |-> Dict(<<>>)]
      [] o = "swap" ->
            [method |-> "post", path |-> EP_swap,
             kwargs |-> Dict(<< <<"json", SwapPayload(a)>> >>)]

(* ------------------------------ transport ------------------------------ *)

\* attribute names of an httpx.Client that hasattr() finds: the verbs and
\* the client's other public members
ClientAttrs ==
    {"get", "post", "put", "patch", "delete", "head", "options",
     "request", "send", "stream", "close", "headers", "timeout"}

\* the base header set with the bare token as the Authorization value
BaseHeadersRawToken(tok) ==
    Dict(<< <<"Authorization", Str(tok)>>,
            <<"Content-Type", Str(<<"application/json">>)>> >>)

\* self.__base_headers__ as built by __init__
BaseHeaders(tok) ==
    Dict(<< <<"Authorization", Str(<<"Bearer", " ">> \o tok)>>,
            <<"Content-Type", Str(<<"application/json">>)>> >>)

Raise(exc, msg, resp) ==
    [kind |-> "raise", exc |-> exc, msg |-> msg, response |-> resp]

Return(v) == [kind |-> "return", value |-> v]

\* the httpx.Client methods that send a request: get, options, head and
\* delete take no body, post, put and patch take json
Verbs == {"get", "post", "put", "patch", "delete", "head", "options"}

BodyVerbs == {"post", "put", "patch"}

\* lines 72-82: the header map of one request, a copy of the base header
\* set updated with the caller's extra headers
MergedHeaders(baseHeaders, kwargs) ==
    LET extra == DictGet(kwargs, "headers", Absent)
    IN  IF extra = Absent \/ extra.t # "dict" THEN baseHeaders
        ELSE DictUpdate(baseHeaders, extra)

\* line 85: f"{self.__base_url__}/{path.lstrip('/')}"
JoinUrl(baseUrl, path) == baseUrl \o <<"/">> \o LStrip(path, "/")

\* _send_request up to the call of the transport: the exception it raises
\* before any request is made, or the request handed to the httpx method
PrepareRequest(method, path, kwargs, baseUrl, baseHeaders) ==
    IF method \notin ClientAttrs
    THEN Raise("ValueError", Str(<<"HTTP method is not valid">>), None)
    ELSE LET extra == DictGet(kwargs, "headers", Absent)
             headers == MergedHeaders(baseHeaders, kwargs)
             url == JoinUrl(baseUrl, path)
         IN  IF extra # Absent /\ extra.t # "dict"
             THEN Raise("TypeError", Str(<<"headers must be a valid dict">>), None)
             ELSE IF extra # Absent
             \* method_effector(url, headers=headers, *args, **kwargs): the
             \* keyword headers is given twice
             THEN Raise("TypeError", Str(<<"multiple values for headers">>), None)
             ELSE IF method \notin Verbs
             \* an attribute that is no verb: not callable, or called with
             \* arguments it does not take
             THEN Raise("TypeError", Str(<<"cannot be called this way">>), None)
             ELSE IF HasKey(kwargs, "json") /\ method \notin BodyVerbs
             THEN Raise("TypeError", Str(<<"unexpected keyword argument json">>), None)
             ELSE [kind |-> "request", method |-> method, url |-> url,
                   headers |-> headers,
                   json |-> DictGet(kwargs, "json", Absent),
                   params |-> DictGet(kwargs, "params", Absent)]

(* -------------------------- response decoder --------------------------- *)

\* httpx.Response.is_success
IsSuccess(resp) == resp.status \in 200..299

Ok(v) == [kind |-> "ok", value |-> v]

\* httpx.Response.json() is json.loads(content): on a body that is not JSON
\* it raises json.JSONDecodeError.  httpx.DecodingError is what httpx raises
\* for a malformed content encoding, while the body is read by the transport.
JsonFailure == "JSONDecodeError"

\* _check_response without its test of the status
CheckResponseLenient(resp, data) == Ok(data)

\* _check_response: data.get on a decoded body, which need not be a dict
CheckResponse(resp, data) ==
    IF ~IsSuccess(resp)
    THEN IF data.t # "dict"
         THEN Raise("AttributeError", Str(<<"object has no attribute 'get'">>), None)
         ELSE Raise("ChapaError",
                    DictGet(data, "message", Str(<<"Unknown error">>)), resp)
    ELSE Ok(data)

\* _extract_json_data
ExtractJsonData(resp) ==
    IF resp.body.k = "text"
    THEN IF JsonFailure = "DecodingError"
         THEN Raise("ChapaError", Str(<<"Invalid JSON response">>), resp)
         ELSE Raise(JsonFailure, Str(<<"Expecting value">>), None)
    ELSE CheckResponse(resp, resp.body.j)

(* --------------------------- field validator --------------------------- *)

\* the types `field in data` is defined for
IsContainer(data) == data.t \in {"dict", "list", "str"}

\* `field in data`: a key of a dict, an element of a list, a piece of a str
Contains(data, field) ==
    CASE data.t = "dict" -> HasKey(data, field)
      [] data.t = "list" -> Str(<<field>>) \in Range(data.l)
      [] data.t = "str" -> field \in Range(data.s)
      [] OTHER -> FALSE

MissingMsg(field) == Str(<<"data missing ", field, " field">>)

CheckDataFieldsLast(data, fields) ==
    IF fields # <<>> /\ ~IsContainer(data)
    THEN Raise("TypeError", Str(<<"argument is not iterable">>), None)
    ELSE LET miss == {i \in 1..Len(fields) : ~Contains(data, fields[i])}
         IN  IF miss = {} THEN Ok(data)
             ELSE LET i == CHOOSE j \in miss : \A k \in miss : j >= k
                  IN  Raise("ChapaError", MissingMsg(fields[i]), None)

\* _check_data_fields
CheckDataFields(data, fields) ==
    IF fields # <<>> /\ ~IsContainer(data)
    THEN Raise("TypeError", Str(<<"argument is not iterable">>), None)
    ELSE LET miss == {i \in 1..Len(fields) : ~Contains(data, fields[i])}
         IN  IF miss = {} THEN Ok(data)
             ELSE LET i == CHOOSE j \in miss : \A k \in miss : j <= k
                  IN  Raise("ChapaError", MissingMsg(fields[i]), None)

\* the field lists the facade methods pass to _check_data_fields
RequiredFields(o) ==
    CASE o = "init_payment" -> <<"checkout_url">>
      [] o = "verify_transaction" ->
            <<"first_name", "last_name", "email", "amount", "charge",
              "currency", "mode", "status", "method", "type", "tx_ref",
              "reference", "created_at", "updated_at">>
      [] o = "create_subaccount" -> <<"subaccount_id">>
      [] o = "bulk_transfer" -> <<"id", "created_at">>
      [] o = "verify_transfer" ->
            <<"account_name", "account_number", "amount", "charge",
              "currency", "mode", "status", "bank_code", "bank_name",
              "transfer_method", "tx_ref", "chapa_transfer_id",
              "created_at", "updated_at">>
      [] o = "balances" -> <<"currency", "available_balance", "ledger_balance">>
      [] OTHER -> <<>>

(* ----------- src/pychapa/clients/schema.py: result records ------------- *)

F(name, type, optional) == [name |-> name, type |-> type, optional |-> optional]

\* the declared fields of each pydantic class: name, type, Optional[...] = None
Classes ==
    {"ChapaBalance", "ChapaSubaccount", "ChapaCustomization", "PaymentCheckout",
     "PaymentDetail", "TransferDetail", "BulkTransferQueue"}

SchemaOf ==
  [cls \in Classes |->
    CASE cls = "ChapaBalance" ->
            <<F("currency", "str", FALSE), F("available_balance", "float", FALSE),
              F("ledger_balance", "float", FALSE)>>
      [] cls = "ChapaSubaccount" -> <<F("subaccount_id", "str", FALSE)>>
      [] cls = "ChapaCustomization" ->
            <<F("title", "str", TRUE), F("description", "str", TRUE),
              F("logo", "str", TRUE)>>
      [] cls = "PaymentCheckout" -> <<F("checkout_url", "str", FALSE)>>
      [] cls = "PaymentDetail" ->
            <<F("first_name", "str", TRUE), F("last_name", "str", TRUE),
              F("email", "str", TRUE), F("amount", "float", FALSE),
              F("charge", "float", TRUE), F("currency", "Currency", FALSE),
              F("mode", "Mode", FALSE), F("status", "str", FALSE),
              F("method", "str", TRUE), F("type", "str", FALSE),
              F("tx_ref", "str", FALSE), F("reference", "str", TRUE),
              F("meta", "str", TRUE),
              F("customization", "ChapaCustomization", TRUE),
              F("created_at", "datetime", FALSE),
              F("updated_at", "datetime", FALSE)>>
      [] cls = "TransferDetail" ->
            <<F("account_name", "str", FALSE), F("account_number", "str", FALSE),
              F("mobile", "str", TRUE), F("amount", "float", FALSE),
              F("charge", "float", FALSE), F("currency", "Currency", FALSE),
              F("mode", "Mode", FALSE), F("status", "Status", FALSE),
              F("bank_code", "str", FALSE), F("bank_name", "str", FALSE),
              F("transfer_method", "str", FALSE), F("tx_ref", "str", FALSE),
              F("chapa_transfer_id", "str", FALSE),
              F("ip_address", "str", TRUE), F("narration", "str", TRUE),
              F("cross_party_reference", "str", TRUE),
              F("created_at", "datetime", FALSE),
              F("updated_at", "datetime", FALSE)>>
      [] cls = "BulkTransferQueue" ->
            <<F("id", "int", FALSE), F("created_at", "datetime", FALSE)>>]

Schema(cls) == SchemaOf[cls]

\* src/pychapa/utils.py: the Literal types
LiteralValues(type) ==
    CASE type = "Currency" -> {<<"ETB">>, <<"USD">>}
      [] type = "Mode" -> {<<"test">>, <<"live">>}
      [] type = "Status" -> {<<"pending">>, <<"success">>}
      [] OTHER -> {}

Invalid == [t |-> "invalid"]

\* the text of an ISO 8601 date and time: <<date, "T", time>>
IsIsoDateTime(s) ==
    /\ Len(s) = 3
    /\ s[2] = "T"
    /\ s[1] \in {"2024-01-01", "2024-06-30"}
    /\ s[3] \in {"10:00:00Z", "23:59:59Z"}

\* the text of a number with one fractional digit: <<digits.., ".", digit>>
IsDecimal(s) ==
    /\ Len(s) >= 3
    /\ s[Len(s) - 1] = "."
    /\ IsDigit(s[Len(s)])
    /\ AllDigits(SubSeq(s, 1, Len(s) - 2))

\* pydantic's conversion of an input value to a scalar field type
CoerceScalar(type, v) ==
    CASE type = "str" -> IF v.t = "str" THEN v ELSE Invalid
      [] type = "float" ->
            IF v.t = "float" THEN v
            ELSE IF v.t = "int" THEN FloatV(v.n, 0)
            ELSE IF v.t = "str" /\ AllDigits(v.s) THEN FloatV(ParseNat(v.s, 0), 0)
            ELSE IF v.t = "str" /\ IsDecimal(v.s)
            THEN FloatV(ParseNat(SubSeq(v.s, 1, Len(v.s) - 2), 0),
                        DigitVal(v.s[Len(v.s)]))
            ELSE Invalid
      [] type = "int" ->
            IF v.t = "int" THEN v
            ELSE IF v.t = "float" /\ v.f = 0 THEN IntV(v.w)
            ELSE IF v.t = "str" /\ AllDigits(v.s) THEN IntV(ParseNat(v.s, 0))
            ELSE Invalid
      [] type = "datetime" ->
            IF v.t = "str" /\ IsIsoDateTime(v.s) THEN DateTime(v.s)
            ELSE IF v.t = "int" THEN DateTime(<<"@">> \o IntStr(v.n))
            ELSE IF v.t = "str" /\ AllDigits(v.s) THEN DateTime(<<"@">> \o v.s)
            ELSE Invalid
      [] OTHER ->
            IF v.t = "str" /\ v.s \in LiteralValues(type) THEN v ELSE Invalid

ScalarFieldDefaulting(f, data) ==
    LET v == DictGet(data, f.name, Absent)
    IN  IF f.optional THEN None
        ELSE IF v = Absent \/ v = None THEN Invalid
        ELSE CoerceScalar(f.type, v)

\* one declared field read from the keyword arguments: a missing Optional
\* field takes its default None, keys that are not declared are ignored
ScalarField(f, data) ==
    LET v == DictGet(data, f.name, Absent)
    IN  IF v = Absent THEN (IF f.optional THEN None ELSE Invalid)
        ELSE IF v = None THEN (IF f.optional THEN None ELSE Invalid)
        ELSE CoerceScalar(f.type, v)

FieldNamesOf ==
    [cls \in Classes |-> {SchemaOf[cls][i].name : i \in 1..Len(SchemaOf[cls])}]

FieldNames(cls) == FieldNamesOf[cls]

FieldsByName ==
    [cls \in Classes |->
        [n \in FieldNamesOf[cls] |->
            SchemaOf[cls][CHOOSE i \in 1..Len(SchemaOf[cls]) : SchemaOf[cls][i].name = n]]]

\* the declaration of the field name of cls
FieldOf(cls, name) == FieldsByName[cls][name]

\* ChapaCustomization(**v) for the nested customization field
Customization(v) ==
    IF v.t # "dict" THEN Invalid
    ELSE LET vals == [n \in FieldNames("ChapaCustomization") |->
                        ScalarField(FieldOf("ChapaCustomization", n), v)]
         IN  IF \E n \in DOMAIN vals : vals[n] = Invalid THEN Invalid
             ELSE Model("ChapaCustomization", vals)

FieldValue(f, data) ==
    IF f.type = "ChapaCustomization"
    THEN LET v == DictGet(data, f.name, Absent)
         IN  IF v = Absent \/ v = None THEN None ELSE Customization(v)
    ELSE ScalarField(f, data)

\* cls(**data): the record, or pydantic's ValidationError
Construct(cls, data) ==
    IF data.t # "dict"
    THEN Raise("TypeError", Str(<<"argument after ** must be a mapping">>), None)
    ELSE LET vals == [n \in FieldNames(cls) |-> FieldValue(FieldOf(cls, n), data)]
         IN  IF \E n \in DOMAIN vals : vals[n] = Invalid
             THEN Raise("ValidationError", Str(<<"validation error for ", cls>>), None)
             ELSE Ok(Model(cls, vals))

ResultClass(o) ==
    CASE o = "init_payment" -> "PaymentCheckout"
      [] o = "verify_transaction" -> "PaymentDetail"
      [] o = "create_subaccount" -> "ChapaSubaccount"
      [] o = "bulk_transfer" -> "BulkTransferQueue"
      [] o = "verify_transfer" -> "TransferDetail"
      [] o = "balances" -> "ChapaBalance"

(* ------------------ the facade after the transport call ---------------- *)

TypedOps ==
    {"init_payment", "verify_transaction", "create_subaccount",
     "bulk_transfer", "verify_transfer"}

\* the default each facade method gives json_data.get("data", ...)
DataDefault(o) ==
    CASE o \in {"get_transaction_log", "balances"} -> List(<<>>)
      [] o = "init_transfer" -> None
      [] OTHER -> Dict(<<>>)

\* json_data.get("data", default) on the decoded body
GetData(json_data, default) ==
    IF json_data.t # "dict"
    THEN Raise("AttributeError", Str(<<"object has no attribute 'get'">>), None)
    ELSE Ok(DictGet(json_data, "data", default))

\* what a facade call has done once it ends: the outcome, the stages it ran
\* after the transport call, the result records it constructed
Ended(outcome, stages, constructed) ==
    [outcome |-> outcome, stages |-> stages, constructed |-> constructed]

\* `for balance in balances`: the items the loop visits
Iterate(data) ==
    CASE data.t = "list" -> Ok(data.l)
      [] data.t = "dict" -> Ok([i \in 1..Len(data.p) |-> Str(<<data.p[i][1]>>)])
      [] data.t = "str" -> Ok([i \in 1..Len(data.s) |-> Str(<<data.s[i]>>)])
      [] OTHER -> Raise("TypeError", Str(<<"object is not iterable">>), None)

RECURSIVE BalancesLoop(_, _, _, _)
\* the loop of balances(): check the fields of one item, construct its
\* record, append it
BalancesLoop(items, i, acc, stages) ==
    IF i > Len(items) THEN Ended(Return(List(acc)), stages, Len(acc))
    ELSE LET chk == CheckDataFields(items[i], RequiredFields("balances"))
         IN  IF chk.kind = "raise"
             THEN Ended(chk, Append(stages, "validate"), Len(acc))
             ELSE LET c == Construct("ChapaBalance", items[i])
                  IN  IF c.kind = "raise"
                      THEN Ended(c, stages \o <<"validate", "map">>, Len(acc))
                      ELSE BalancesLoop(items, i + 1, Append(acc, c.value),
                                        stages \o <<"validate", "map">>)

\* a facade method from the return of _send_request to its own end
AfterResponse(o, resp) ==
    LET dec == ExtractJsonData(resp)
        st == IF resp.body.k = "text" THEN <<"decode">> ELSE <<"decode", "classify">>
    IN  IF dec.kind = "raise" THEN Ended(dec, st, 0)
        ELSE IF o = "banks" THEN Ended(Return(dec.value), st, 0)
        ELSE LET got == GetData(dec.value, DataDefault(o))
             IN  IF got.kind = "raise" THEN Ended(got, st, 0)
                 ELSE IF o \in TypedOps
                 THEN LET chk == CheckDataFields(got.value, RequiredFields(o))
                      IN  IF chk.kind = "raise"
                          THEN Ended(chk, Append(st, "validate"), 0)
                          ELSE LET c == Construct(ResultClass(o), got.value)
                               IN  IF c.kind = "raise"
                                   THEN Ended(c, st \o <<"validate", "map">>, 0)
                                   ELSE Ended(Return(c.value),
                                              st \o <<"validate", "map">>, 1)
                 ELSE IF o = "balances"
                 THEN LET it == Iterate(got.value)
                      IN  IF it.kind = "raise" THEN Ended(it, st, 0)
                          ELSE BalancesLoop(it.value, 1, <<>>, st)
                 ELSE Ended(Return(got.value), st, 0)

(* ------------------------------- inputs -------------------------------- *)

\* optional parameters a call may supply at once
MaxOptSupplied == 2

\* fields of a response's data that depart from the well-formed record
MaxDeviations == 1

\* items in the list a balances response returns
MaxBalances == 2

\* close() calls on one client
MaxCloses == 2

Amounts == {IntV(100), IntV(0), FloatV(2, 5)}

DictParams == {"customization", "meta"}

SampleValue(name) ==
    IF name \in DictParams THEN Dict(<< <<"title", Str(<<"Shop">>)>> >>)
    ELSE IF name = "currency" THEN Str(<<"ETB">>)
    ELSE Str(<<"a ", name>>)

EmptyValue(name) == IF name \in DictParams THEN Dict(<<>>) ELSE Str(<<>>)

\* every way to omit (None), supply empty or supply a value for the optional
\* parameters names, with at most MaxOptSupplied of them not omitted
OptChoices(names) ==
    UNION {{[n \in names |->
                IF n \notin S THEN None
                ELSE IF n \in E THEN EmptyValue(n) ELSE SampleValue(n)]
            : E \in SUBSET S}
           : S \in {T \in SUBSET names : Cardinality(T) <= MaxOptSupplied}}

TxRefs == {Str(<<"tx123">>), Str(<<"ref", "-", "9">>)}

BulkItem ==
    Dict(<< <<"account_name", Str(<<"Abebe">>)>>, <<"amount", IntV(100)>> >>)

ArgsOf ==
    [o \in Ops |->
      CASE o = "init_payment" ->
              {("amount" :> am) @@ opt :
                  am \in Amounts, opt \in OptChoices(Range(InitPaymentOptional))}
        [] o \in {"verify_transaction", "get_transaction_log", "verify_transfer"} ->
              {("tx_ref" :> r) : r \in TxRefs}
        [] o = "create_subaccount" ->
              {("account_name" :> Str(<<"Abebe">>)) @@ ("bank_code" :> IntV(855))
                 @@ ("account_number" :> Str(<<"0900123456">>))
                 @@ ("split_value" :> sv) @@ ("split_type" :> Str(<<st>>)) @@ opt :
                  sv \in {IntV(10), FloatV(0, 5)}, st \in {"flat", "percentage"},
                  opt \in OptChoices({"business_name"})}
        [] o \in {"get_transactions", "get_transfers"} ->
              {("page" :> IntV(pg)) @@ ("per_page" :> IntV(10)) : pg \in {1, 2}}
        [] o = "init_transfer" ->
              {("amount" :> am) @@ ("account_number" :> Str(<<"0900123456">>))
                 @@ ("bank_code" :> IntV(855)) @@ opt :
                  am \in Amounts, opt \in OptChoices(Range(InitTransferOptional))}
        [] o = "bulk_transfer" ->
              {("bulk_data" :> bd) @@ opt :
                  bd \in {List(<<>>), List(<<BulkItem>>)},
                  opt \in OptChoices({"title", "currency"})}
        [] o = "banks" -> {<<>>}
        [] o = "balances" ->
              {("currency" :> c) :
                  c \in {None, Str(<<>>), Str(<<"E", "T", "B">>),
                         Str(<<"U", "S", "D">>), Str(<<"u", "s", "d">>),
                         Str(<<"E", "t", "b">>)}}
        [] o = "swap" ->
              {("amount" :> am) @@ ("from_currency" :> Str(<<f>>))
                 @@ ("to_currency" :> Str(<<t>>)) :
                  am \in Amounts, f \in {"USD"}, t \in {"ETB", "USD"}}]

Statuses == {200, 299, 300, 404}

IsoText == Str(<<"2024-01-01", "T", "10:00:00Z">>)

\* a value of the field's declared type, different for different fields
WellTyped(f) ==
    CASE f.type = "str" -> Str(<<"the ", f.name>>)
      [] f.type = "float" -> FloatV(10, 5)
      [] f.type = "int" -> IntV(7)
      [] f.type = "datetime" -> IsoText
      [] f.type = "ChapaCustomization" -> Dict(<< <<"title", Str(<<"Shop">>)>> >>)
      [] OTHER -> Str(CHOOSE v \in LiteralValues(f.type) : TRUE)

\* what a field may hold instead: nothing (the key is missing), null, a
\* text, a number, the text of a number
Alternates == {Absent, None, Str(<<"oops">>), IntV(3), Str(<<"1", "0">>)}

RECURSIVE DataPairs(_, _, _, _)
DataPairs(cls, names, i, dev) ==
    IF i > Len(names) THEN <<>>
    ELSE LET v == IF names[i] \in DOMAIN dev THEN dev[names[i]]
                  ELSE WellTyped(FieldOf(cls, names[i]))
         IN  (IF v = Absent THEN <<>> ELSE << <<names[i], v>> >>)
                \o DataPairs(cls, names, i + 1, dev)

\* the records a response's data may hold for operation o: the well-formed
\* record with at most MaxDeviations fields replaced
DataRecords(o) ==
    {Dict(DataPairs(ResultClass(o), RequiredFields(o), 1, dev)) :
        dev \in UNION {[S -> Alternates] :
                    S \in {T \in SUBSET Range(RequiredFields(o)) :
                              Cardinality(T) <= MaxDeviations}}}

Complete(o) == Dict(DataPairs(ResultClass(o), RequiredFields(o), 1, <<>>))

\* the well-formed record with a key the result record does not declare,
\* and with the optional fields the field list does not name
Enriched(o) ==
    {Dict(Append(Complete(o).p, <<"undeclared", Str(<<"x">>)>>))}
      \cup (IF o = "verify_transaction"
            THEN {Dict(Complete(o).p \o
                    << <<"meta", Str(<<"m">>)>>,
                       <<"customization",
                         Dict(<< <<"title", Str(<<"Shop">>)>>, <<"logo", None>> >>)>> >>),
                  Dict(Append(Complete(o).p, <<"customization", Str(<<"oops">>)>>))}
            ELSE IF o = "verify_transfer"
            THEN {Dict(Append(Complete(o).p, <<"mobile", Str(<<"0911">>)>>))}
            ELSE {})

BalanceUSD ==
    Dict(<< <<"currency", Str(<<"USD">>)>>,
            <<"available_balance", Str(<<"2", ".", "5">>)>>,
            <<"ledger_balance", IntV(3)>> >>)

BalanceItems ==
    {Complete("balances"), BalanceUSD, None,
     Dict(<< <<"available_balance", FloatV(1, 0)>>, <<"ledger_balance", FloatV(1, 0)>> >>),
     Dict(<< <<"currency", Str(<<"ETB">>)>>, <<"ledger_balance", FloatV(1, 0)>> >>),
     Dict(<< <<"currency", Str(<<"ETB">>)>>, <<"available_balance", FloatV(1, 0)>> >>),
     Dict(<< <<"currency", Str(<<"ETB">>)>> >>),
     Dict(<< <<"currency", Str(<<"ETB">>)>>,
             <<"available_balance", Str(<<"oops">>)>>,
             <<"ledger_balance", FloatV(1, 0)>> >>)}

BalanceLists ==
    UNION {{List(l) : l \in [1..n -> BalanceItems]} : n \in 0..MaxBalances}

\* what the key data of a response envelope may hold
DataOf ==
    [o \in Ops |->
        {Absent, None, List(<<>>), Str(<<"oops">>), IntV(5), Dict(<<>>)}
          \cup (IF o \in TypedOps THEN DataRecords(o) \cup Enriched(o)
                ELSE IF o = "balances" THEN BalanceLists \cup {Complete("balances")}
                ELSE {Dict(<< <<"items", List(<<IntV(1), IntV(2)>>)>> >>),
                      List(<<Dict(<< <<"name", Str(<<"CBE">>)>> >>)>>)})]

Messages == {Absent, None, Str(<<"not found">>)}

\* the decoded body {"message": m, "status": ..., "data": d}
Envelope(m, d) ==
    Dict((IF m = Absent THEN <<>> ELSE << <<"message", m>> >>)
           \o << <<"status", Str(<<"success">>)>> >>
           \o (IF d = Absent THEN <<>> ELSE << <<"data", d>> >>))

\* a well-formed value of data for each operation
SampleData(o) ==
    IF o \in TypedOps THEN Complete(o)
    ELSE IF o = "balances" THEN List(<<BalanceUSD>>)
    ELSE List(<<Dict(<< <<"name", Str(<<"CBE">>)>> >>)>>)

\* the pagination block some listings carry beside data
MetaPair == <<"meta", Dict(<< <<"total", IntV(1)>> >>)>>

\* an envelope serialised with its keys in the opposite order, and one with
\* a further top-level key
Reordered(e) == Dict([i \in 1..Len(e.p) |-> e.p[Len(e.p) + 1 - i]])

Extended(e) == Dict(Append(e.p, MetaPair))

\* bodies: text that is not JSON, JSON that is no object, envelopes
Bodies ==
    [o \in Ops |->
        {[k |-> "text"]}
          \cup {[k |-> "json", j |-> v] : v \in {None, List(<<>>), Str(<<"oops">>)}}
          \cup {[k |-> "json", j |-> Envelope(m, d)] : m \in Messages, d \in DataOf[o]}
          \cup {[k |-> "json", j |-> f] :
                  f \in UNION {{Reordered(Envelope(Str(<<"not found">>), d)),
                                Extended(Envelope(Str(<<"not found">>), d))} :
                                 d \in {Absent, SampleData(o)}}}]

Responses ==
    [o \in Ops |-> {[status |-> st, body |-> b] : st \in Statuses, b \in Bodies[o]}]

\* failures of the network call itself, raised by the httpx method
TransportFailures == {"ConnectError", "ReadTimeout", "DecodingError"}

(* ----------------------------- the client ------------------------------ *)

VARIABLES
    token,          \* self.__token__
    base_url,       \* self.__base_url__
    base_headers,   \* self.__base_headers__
    closed,         \* whether self.__client__ (the httpx.Client) is closed
    acquired,       \* httpx.Client objects created by this Chapa object
    released,       \* times the client's transport was closed
    closes,         \* close() calls so far
    pc,             \* "idle", "inflight" (inside the httpx call), "done"
    op,             \* the facade method running
    args,           \* its arguments, while the request is being made
    request,        \* the request handed to the httpx method
    transport_calls,
                    \* calls of the httpx method this facade call made
    roundtrips,     \* responses this call received
    response,       \* the response _send_request returned
    outcome,        \* what the caller gets: a return value or an exception
    stages,         \* the pipeline stages this call ran, in order
    constructed,    \* result records this call constructed
    peer            \* the frame of a second caller's call on the same client

clientVars == <<token, base_url, base_headers, closed, acquired, released, closes>>

callVars ==
    <<pc, op, args, request, transport_calls, roundtrips, response, outcome, stages, constructed>>

vars == <<clientVars, callVars, peer>>

NoCall == "none"

NoArgs == <<>>

NoRequest == [kind |-> "none"]

NoResponse == [status |-> 0, body |-> [k |-> "none"]]

NoOutcome == [kind |-> "none"]

DefaultBaseUrl == <<"https:", "/", "/", "api.chapa.co", "/", "v1">>

\* the second caller is in no call
NoPeer ==
    [pc |-> "idle", op |-> NoCall, method |-> "", path |-> <<>>,
     kwargs |-> Dict(<<>>), headers |-> None, request |-> NoRequest,
     response |-> NoResponse, outcome |-> NoOutcome]

\* Chapa.__init__ with the default base_url
Init ==
    /\ token = <<"CHASECK_TEST">>
    /\ base_url = DefaultBaseUrl
    /\ base_headers = BaseHeaders(token)
    /\ closed = FALSE
    /\ acquired = 1
    /\ released = 0
    /\ closes = 0
    /\ pc = "idle"
    /\ op = NoCall
    /\ args = NoArgs
    /\ request = NoRequest
    /\ transport_calls = 0
    /\ roundtrips = 0
    /\ response = NoResponse
    /\ outcome = NoOutcome
    /\ stages = <<>>
    /\ constructed = 0
    /\ peer = NoPeer

\* httpx.Client.send on a closed client
ClosedClientError ==
    Raise("RuntimeError", Str(<<"Cannot send a request, as the client has been closed.">>),
          None)

\* a facade method from its entry to the call of the httpx method inside
\* _send_request: builds the payload and the request; a closed httpx client
\* refuses the request at once
Invoke(o, a) ==
    /\ pc = "idle"
    /\ op' = o
    /\ LET f == Facade(o, a)
           req == PrepareRequest(f.method, f.path, f.kwargs, base_url, base_headers)
       IN  IF req.kind = "raise"
           THEN /\ pc' = "done" /\ outcome' = req /\ request' = NoRequest
                /\ args' = NoArgs /\ transport_calls' = 0 /\ stages' = <<"build">>
           ELSE IF closed
           THEN /\ pc' = "done" /\ outcome' = ClosedClientError /\ request' = req
                /\ args' = NoArgs /\ transport_calls' = 1
                /\ stages' = <<"build", "transport">>
           ELSE /\ pc' = "inflight" /\ outcome' = NoOutcome /\ request' = req
                /\ args' = a /\ transport_calls' = 1 /\ stages' = <<"build", "transport">>
    /\ roundtrips' = 0
    /\ response' = NoResponse
    /\ constructed' = 0
    /\ UNCHANGED clientVars
    /\ UNCHANGED peer

\* the httpx method raises: _send_request logs and re-raises
TransportRaises(e) ==
    /\ pc = "inflight"
    /\ pc' = "done"
    /\ outcome' = Raise(e, Str(<<"transport failure">>), None)
    /\ args' = NoArgs
    /\ request' = NoRequest
    /\ UNCHANGED <<op, transport_calls, roundtrips, response, stages, constructed>>
    /\ UNCHANGED clientVars
    /\ UNCHANGED peer

RespondTwice(r) ==
    /\ pc = "inflight"
    /\ \E e \in {AfterResponse(op, r)} :
           /\ outcome' = e.outcome
           /\ stages' = stages \o e.stages
           /\ constructed' = e.constructed
           /\ transport_calls' = IF IsSuccess(r) THEN transport_calls ELSE transport_calls + 1
           /\ roundtrips' = IF IsSuccess(r) THEN roundtrips + 1 ELSE roundtrips + 2
    /\ pc' = "done"
    /\ response' = r
    /\ args' = NoArgs
    /\ request' = NoRequest
    /\ UNCHANGED op
    /\ UNCHANGED clientVars
    /\ UNCHANGED peer

\* the httpx method returns the response r and the facade method runs to
\* its end: decode, classify, validate, map
Respond(r) ==
    /\ pc = "inflight"
    /\ \E e \in {AfterResponse(op, r)} :
           /\ outcome' = e.outcome
           /\ stages' = stages \o e.stages
           /\ constructed' = e.constructed
    /\ pc' = "done"
    /\ response' = r
    /\ roundtrips' = roundtrips + 1
    /\ args' = NoArgs
    /\ request' = NoRequest
    /\ UNCHANGED <<op, transport_calls>>
    /\ UNCHANGED clientVars
    /\ UNCHANGED peer

\* the caller has the outcome; the call's frame is gone
Finish ==
    /\ pc = "done"
    /\ pc' = "idle"
    /\ op' = NoCall
    /\ args' = NoArgs
    /\ request' = NoRequest
    /\ transport_calls' = 0
    /\ roundtrips' = 0
    /\ response' = NoResponse
    /\ outcome' = NoOutcome
    /\ stages' = <<>>
    /\ constructed' = 0
    /\ UNCHANGED clientVars
    /\ UNCHANGED peer

CloseKeepsOpen ==
    /\ pc = "idle"
    /\ closes < MaxCloses
    /\ closes' = closes + 1
    /\ released' = released + 1
    /\ UNCHANGED <<token, base_url, base_headers, acquired, closed>>
    /\ UNCHANGED callVars
    /\ UNCHANGED peer

\* Chapa.close: httpx.Client.close closes the transport unless the client
\* is closed already
Close ==
    /\ pc = "idle"
    /\ closes < MaxCloses
    /\ closes' = closes + 1
    /\ closed' = TRUE
    /\ released' = IF closed THEN released ELSE released + 1
    /\ UNCHANGED <<token, base_url, base_headers, acquired>>
    /\ UNCHANGED callVars
    /\ UNCHANGED peer

\* the facade methods a caller may enter: the caller is sequential
Callable == IF pc = "idle" THEN Ops ELSE {}

\* the responses the server may give to the request in flight
Possible == IF pc = "inflight" THEN Responses[op] ELSE {}

Next ==
    \/ \E o \in Callable : \E a \in ArgsOf[o] : Invoke(o, a)
    \/ \E e \in TransportFailures : TransportRaises(e)
    \/ \E r \in Possible : Respond(r)
    \/ Finish
    \/ Close

Spec == Init /\ [][Next]_vars

(* --------------------- direct calls of _send_request ------------------- *)

\* leading slashes of a path handed to _send_request
MaxLeadingSlashes == 2

RECURSIVE Slashes(_)
Slashes(n) == IF n = 0 THEN <<>> ELSE <<"/">> \o Slashes(n - 1)

Tokens == {<<"CHASECK_TEST">>, <<"CHASECK_LIVE">>}

\* the default, the default with a trailing slash, a bare host
BaseUrls ==
    {DefaultBaseUrl, DefaultBaseUrl \o <<"/">>,
     <<"https:", "/", "/", "sandbox.chapa.co">>}

\* names a caller may pass as method: the two of HttpMethod, other verbs of
\* httpx.Client, other attributes of it, names it does not have
MethodNames == {"get", "post", "put", "delete", "close", "headers", "GET", "fetch"}

Paths ==
    {Slashes(n) \o tl :
        n \in 0..MaxLeadingSlashes,
        tl \in {<<"banks">>, <<"transaction", "/", "verify", "/", "tx123">>}}

\* what a caller may pass as headers=
ExtraHeaders ==
    {Absent, None, Str(<<"X-Trace: 1">>), Dict(<<>>),
     Dict(<< <<"X-Trace", Str(<<"1">>)>> >>),
     Dict(<< <<"Authorization", Str(<<"Bearer", " ", "other">>)>> >>),
     Dict(<< <<"Content-Type", Str(<<"text/plain">>)>>,
             <<"X-Trace", Str(<<"1">>)>> >>)}

\* the keyword arguments of a direct call
KwargsOf(h, j, q) ==
    Dict((IF h = Absent THEN <<>> ELSE << <<"headers", h>> >>)
           \o (IF j = Absent THEN <<>> ELSE << <<"json", j>> >>)
           \o (IF q = Absent THEN <<>> ELSE << <<"params", q>> >>))

DirectKwargs ==
    {KwargsOf(h, j, q) :
        h \in ExtraHeaders,
        j \in {Absent, Dict(<< <<"amount", IntV(100)>> >>)},
        q \in {Absent, Dict(<< <<"page", IntV(1)>> >>)}}

SendRequestName == "_send_request"

\* the arguments of one direct call
DirectCall(method, path, kwargs) ==
    [method |-> method, path |-> path, kwargs |-> kwargs]

\* the httpx.Response object as a value handed back to the caller
ResponseValue(r) == [t |-> "response", r |-> r]

\* a few responses for each operation: text that is not JSON and envelopes,
\* with a success and a failure status
SampleResponses ==
    [o \in Ops |->
        {[status |-> st, body |-> b] :
            st \in {200, 404},
            b \in {[k |-> "text"]}
                    \cup {[k |-> "json", j |-> Envelope(Str(<<"not found">>), d)] :
                            d \in {Absent, SampleData(o)}}}]

DirectResponses == SampleResponses["banks"]

\* Chapa.__init__ with a token and a base URL of the caller's choice
InitAdapter ==
    /\ token \in Tokens
    /\ base_url \in BaseUrls
    /\ base_headers = BaseHeaders(token)
    /\ closed = FALSE
    /\ acquired = 1
    /\ released = 0
    /\ closes = 0
    /\ pc = "idle"
    /\ op = NoCall
    /\ args = NoArgs
    /\ request = NoRequest
    /\ transport_calls = 0
    /\ roundtrips = 0
    /\ response = NoResponse
    /\ outcome = NoOutcome
    /\ stages = <<>>
    /\ constructed = 0
    /\ peer = NoPeer

\* _send_request called by the caller itself, from its entry to the call of
\* the httpx method
SendRequest(method, path, kwargs) ==
    /\ pc = "idle"
    /\ op' = SendRequestName
    /\ args' = DirectCall(method, path, kwargs)
    /\ LET req == PrepareRequest(method, path, kwargs, base_url, base_headers)
       IN  IF req.kind = "raise"
           THEN /\ pc' = "done" /\ outcome' = req /\ request' = NoRequest
                /\ transport_calls' = 0 /\ stages' = <<>>
           ELSE IF closed
           THEN /\ pc' = "done" /\ outcome' = ClosedClientError /\ request' = req
                /\ transport_calls' = 1 /\ stages' = <<"transport">>
           ELSE /\ pc' = "inflight" /\ outcome' = NoOutcome /\ request' = req
                /\ transport_calls' = 1 /\ stages' = <<"transport">>
    /\ roundtrips' = 0
    /\ response' = NoResponse
    /\ constructed' = 0
    /\ UNCHANGED clientVars
    /\ UNCHANGED peer

\* the httpx method returns r and _send_request returns it to its caller
SendRequestReturns(r) ==
    /\ pc = "inflight"
    /\ op = SendRequestName
    /\ pc' = "done"
    /\ outcome' = Return(ResponseValue(r))
    /\ response' = r
    /\ roundtrips' = roundtrips + 1
    /\ args' = NoArgs
    /\ request' = NoRequest
    /\ UNCHANGED <<op, transport_calls, stages, constructed>>
    /\ UNCHANGED clientVars
    /\ UNCHANGED peer

FacadeInFlight == pc = "inflight" /\ op \in Ops

DirectInFlight == pc = "inflight" /\ op = SendRequestName

AdapterPossible == IF FacadeInFlight THEN SampleResponses[op] ELSE {}

DirectPossible == IF DirectInFlight THEN DirectResponses ELSE {}

NextAdapter ==
    \/ \E m \in MethodNames : \E p \in Paths : \E kw \in DirectKwargs :
           SendRequest(m, p, kw)
    \/ \E r \in DirectPossible : SendRequestReturns(r)
    \/ \E o \in Callable : \E a \in ArgsOf[o] : Invoke(o, a)
    \/ \E r \in AdapterPossible : Respond(r)
    \/ \E e \in TransportFailures : TransportRaises(e)
    \/ Finish
    \/ Close

SpecAdapter == InitAdapter /\ [][NextAdapter]_vars

(* ------------------- two callers on the same client -------------------- *)

\* the calls of the second caller: facade methods and direct calls of
\* _send_request, with and without extra headers
PeerCalls ==
    {[op |-> o, method |-> Facade(o, a).method, path |-> Facade(o, a).path,
      kwargs |-> Facade(o, a).kwargs] :
        o \in {"banks"}, a \in ArgsOf["banks"]}
      \cup {[op |-> "swap", method |-> Facade("swap", a).method,
             path |-> Facade("swap", a).path, kwargs |-> Facade("swap", a).kwargs] :
               a \in {b \in ArgsOf["swap"] : b["amount"] = IntV(100)}}
      \cup {[op |-> SendRequestName, method |-> m, path |-> <<"/", "banks">>,
             kwargs |-> KwargsOf(h, Absent, Absent)] :
               m \in {"get", "GET"},
               h \in {Absent, Str(<<"X-Trace: 1">>),
                      Dict(<< <<"X-Trace", Str(<<"1">>)>> >>),
                      Dict(<< <<"Authorization", Str(<<"Bearer", " ", "other">>)>> >>)}}

PeerEnded(out) ==
    [peer EXCEPT !.pc = "done", !.outcome = out, !.headers = None,
                 !.request = NoRequest]

\* the second caller enters _send_request: line 66
PeerEnter(c) ==
    /\ peer.pc = "idle"
    /\ peer' =
         IF c.method \notin ClientAttrs
         THEN [NoPeer EXCEPT !.pc = "done", !.op = c.op, !.method = c.method,
                  !.path = c.path, !.kwargs = c.kwargs,
                  !.outcome = Raise("ValueError", Str(<<"HTTP method is not valid">>), None)]
         ELSE [NoPeer EXCEPT !.pc = "entered", !.op = c.op, !.method = c.method,
                  !.path = c.path, !.kwargs = c.kwargs]
    /\ UNCHANGED <<clientVars, callVars>>

\* line 72 with the header map bound to the base header set itself, so that
\* the update of line 81 writes to the client
PeerMergeHeadersShared ==
    /\ peer.pc = "copied"
    /\ LET extra == DictGet(peer.kwargs, "headers", Absent)
       IN  IF extra = Absent
           THEN /\ peer' = [peer EXCEPT !.pc = "merged"]
                /\ UNCHANGED base_headers
           ELSE IF extra.t # "dict"
           THEN /\ peer' = PeerEnded(Raise("TypeError",
                                  Str(<<"headers must be a valid dict">>), None))
                /\ UNCHANGED base_headers
           ELSE /\ peer' = [peer EXCEPT !.pc = "merged",
                                        !.headers = DictUpdate(base_headers, extra)]
                /\ base_headers' = DictUpdate(base_headers, extra)
    /\ UNCHANGED <<token, base_url, closed, acquired, released, closes>>
    /\ UNCHANGED callVars

\* line 72: headers = {**self.__base_headers__}, a new dict
PeerCopyHeaders ==
    /\ peer.pc = "entered"
    /\ peer' = [peer EXCEPT !.pc = "copied", !.headers = base_headers]
    /\ UNCHANGED <<clientVars, callVars>>

\* lines 74-82: the extra headers update the call's own header map
PeerMergeHeaders ==
    /\ peer.pc = "copied"
    /\ LET extra == DictGet(peer.kwargs, "headers", Absent)
       IN  IF extra = Absent
           THEN peer' = [peer EXCEPT !.pc = "merged"]
           ELSE IF extra.t # "dict"
           THEN peer' = PeerEnded(Raise("TypeError",
                                  Str(<<"headers must be a valid dict">>), None))
           ELSE peer' = [peer EXCEPT !.pc = "merged",
                                     !.headers = DictUpdate(peer.headers, extra)]
    /\ UNCHANGED <<clientVars, callVars>>

\* lines 84-89: the URL, and the call of the httpx method
PeerCall ==
    /\ peer.pc = "merged"
    /\ peer' =
         IF HasKey(peer.kwargs, "headers")
         THEN PeerEnded(Raise("TypeError", Str(<<"multiple values for headers">>), None))
         ELSE IF peer.method \notin Verbs
         THEN PeerEnded(Raise("TypeError", Str(<<"cannot be called this way">>), None))
         ELSE IF HasKey(peer.kwargs, "json") /\ peer.method \notin BodyVerbs
         THEN PeerEnded(Raise("TypeError",
                              Str(<<"unexpected keyword argument json">>), None))
         ELSE IF closed THEN PeerEnded(ClosedClientError)
         ELSE [peer EXCEPT !.pc = "inflight", !.headers = None,
                  !.request = [kind |-> "request", method |-> peer.method,
                               url |-> JoinUrl(base_url, peer.path),
                               headers |-> peer.headers,
                               json |-> DictGet(peer.kwargs, "json", Absent),
                               params |-> DictGet(peer.kwargs, "params", Absent)]]
    /\ UNCHANGED <<clientVars, callVars>>

\* lines 92-94 for the second caller
PeerTransportRaises(e) ==
    /\ peer.pc = "inflight"
    /\ peer' = PeerEnded(Raise(e, Str(<<"transport failure">>), None))
    /\ UNCHANGED <<clientVars, callVars>>

\* the second caller's httpx method returns r; a facade method runs to its
\* end, a direct call returns the response
PeerRespond(r) ==
    /\ peer.pc = "inflight"
    /\ peer' = [PeerEnded(IF peer.op = SendRequestName THEN Return(ResponseValue(r))
                          ELSE AfterResponse(peer.op, r).outcome)
                  EXCEPT !.response = r]
    /\ UNCHANGED <<clientVars, callVars>>

PeerFinish ==
    /\ peer.pc = "done"
    /\ peer' = NoPeer
    /\ UNCHANGED <<clientVars, callVars>>

\* the first caller's calls while the second one is at work
ConcurrentOps == {"banks", "swap", "balances"}

ConcurrentCallable == IF pc = "idle" THEN ConcurrentOps ELSE {}

ConcurrentPossible == IF FacadeInFlight THEN SampleResponses[op] ELSE {}

PeerPossible ==
    IF peer.pc # "inflight" THEN {}
    ELSE IF peer.op = SendRequestName THEN DirectResponses
    ELSE SampleResponses[peer.op]

ConcurrentFailures == {"ConnectError"}

NextConcurrent ==
    \/ \E o \in ConcurrentCallable : \E a \in ArgsOf[o] : Invoke(o, a)
    \/ \E r \in ConcurrentPossible : Respond(r)
    \/ \E e \in ConcurrentFailures : TransportRaises(e)
    \/ Finish
    \/ \E c \in PeerCalls : PeerEnter(c)
    \/ PeerCopyHeaders
    \/ PeerMergeHeaders
    \/ PeerCall
    \/ \E r \in PeerPossible : PeerRespond(r)
    \/ \E e \in ConcurrentFailures : PeerTransportRaises(e)
    \/ PeerFinish

SpecConcurrent == Init /\ [][NextConcurrent]_vars

(* ------------------------------- claims -------------------------------- *)

\* a facade call has ended after _send_request returned a response
Responded == pc = "done" /\ response # NoResponse

BodyParses == response.body.k = "json"

\* the decoded body is a JSON object
BodyIsObject == BodyParses /\ response.body.j.t = "dict"

\* the value of key k of the JSON object j, Absent when j has no such key
Member(j, k) ==
    IF \E i \in 1..Len(j.p) : j.p[i][1] = k
    THEN j.p[CHOOSE i \in 1..Len(j.p) : j.p[i][1] = k][2]
    ELSE Absent

\* the message of the decoded body, "Unknown error" when it has none
BodyMessage ==
    IF BodyIsObject /\ Member(response.body.j, "message") # Absent
    THEN Member(response.body.j, "message")
    ELSE Str(<<"Unknown error">>)

\* C1: whenever the response status is not 2xx and the body parses, the
\* call raises ChapaError with the body's message ("Unknown error" when the
\* body has none) and the original response, whatever data holds; no result
\* is returned.
C1_RemoteError ==
    (Responded /\ ~(response.status \in 200..299) /\ BodyParses) =>
        /\ outcome.kind = "raise"
        /\ outcome.exc = "ChapaError"
        /\ outcome.msg = BodyMessage
        /\ outcome.response = response

\* C2: when the response body is not JSON, the call fails with ChapaError
\* "Invalid JSON response" carrying the original response, for 2xx and
\* non-2xx statuses alike.
C2_DecodeError ==
    (Responded /\ ~BodyParses) =>
        /\ outcome.kind = "raise"
        /\ outcome.exc = "ChapaError"
        /\ outcome.msg = Str(<<"Invalid JSON response">>)
        /\ outcome.response = response

Is2xx == response.status \in 200..299

\* the value of the decoded body's key data, Absent when it has none
BodyData == IF BodyIsObject THEN Member(response.body.j, "data") ELSE Absent

\* the required fields, as positions in the list, that the object d lacks
MissingIn(d, fields) ==
    {i \in 1..Len(fields) : \A j \in 1..Len(d.p) : d.p[j][1] # fields[i]}

\* the schema error naming the first field of fields that d lacks
SchemaErrorFor(d, fields) ==
    LET i == CHOOSE k \in MissingIn(d, fields) : \A m \in MissingIn(d, fields) : k <= m
    IN  [kind |-> "raise", exc |-> "ChapaError",
         msg |-> Str(<<"data missing ", fields[i], " field">>), response |-> None]

\* the one record a validating operation reads: data, or {} when the body
\* has no data
RecordRead == IF BodyData = Absent THEN Dict(<<>>) ELSE BodyData

\* a 2xx response to a single-record operation whose data lacks a field
RecordLacksField ==
    /\ Responded /\ Is2xx /\ BodyIsObject
    /\ op \in TypedOps
    /\ RecordRead.t = "dict"
    /\ MissingIn(RecordRead, RequiredFields(op)) # {}

BalanceFields == <<"currency", "available_balance", "ledger_balance">>

\* a 2xx response to balances whose data is a list of objects of which at
\* least one lacks a field
BalancesLackField ==
    /\ Responded /\ Is2xx /\ BodyIsObject
    /\ op = "balances"
    /\ BodyData # Absent
    /\ BodyData.t = "list"
    /\ \A i \in 1..Len(BodyData.l) : BodyData.l[i].t = "dict"
    /\ \E i \in 1..Len(BodyData.l) : MissingIn(BodyData.l[i], BalanceFields) # {}

FirstIncomplete ==
    CHOOSE i \in 1..Len(BodyData.l) :
        /\ MissingIn(BodyData.l[i], BalanceFields) # {}
        /\ \A j \in 1..(i - 1) : MissingIn(BodyData.l[j], BalanceFields) = {}

\* text or number that reads as a number
NumberLike(v) ==
    \/ v.t \in {"int", "float"}
    \/ v.t = "str" /\ (AllDigits(v.s) \/ IsDecimal(v.s))

\* a balance object with every field, each of a form its type takes
BalanceTakes(e) ==
    /\ MissingIn(e, BalanceFields) = {}
    /\ Member(e, "currency").t = "str"
    /\ NumberLike(Member(e, "available_balance"))
    /\ NumberLike(Member(e, "ledger_balance"))

\* the first item of the balances list that is not mapped to a record
FirstRefused ==
    CHOOSE i \in 1..Len(BodyData.l) :
        /\ ~BalanceTakes(BodyData.l[i])
        /\ \A j \in 1..(i - 1) : BalanceTakes(BodyData.l[j])

\* C3 as stated: on a 2xx response whose data (for balances: an element of
\* data) lacks a required field while every field present is well-formed,
\* the call raises the schema error naming the first missing field in list
\* order, and no result object is constructed.
C3_SchemaErrorNothingConstructed ==
    /\ RecordLacksField =>
          /\ outcome = SchemaErrorFor(RecordRead, RequiredFields(op))
          /\ constructed = 0
    /\ (/\ BalancesLackField
        /\ \A i \in 1..Len(BodyData.l) :
              BalanceTakes(BodyData.l[i]) \/ MissingIn(BodyData.l[i], BalanceFields) # {})
          => /\ outcome = SchemaErrorFor(BodyData.l[FirstIncomplete], BalanceFields)
             /\ constructed = 0

\* C3 amended: for the single-record operations as stated.  balances checks
\* and maps its items one at a time, in order: the call raises the failure
\* of the first item that is not mapped, which is the schema error naming
\* that item's first missing field when the item lacks a field; the records
\* of the items before it have been constructed, and none is returned.
C3_SchemaError ==
    /\ RecordLacksField =>
          /\ outcome = SchemaErrorFor(RecordRead, RequiredFields(op))
          /\ constructed = 0
    /\ BalancesLackField =>
          /\ outcome.kind = "raise"
          /\ constructed = FirstRefused - 1
          /\ IF MissingIn(BodyData.l[FirstRefused], BalanceFields) # {}
             THEN outcome = SchemaErrorFor(BodyData.l[FirstRefused], BalanceFields)
             ELSE outcome.exc = "ValidationError"

\* C3 witness: balances met an item lacking a field after a complete one
C3_Witness ==
    /\ BalancesLackField
    /\ constructed = 1
    /\ outcome.exc = "ChapaError"

(* payloads *)

PayloadOps ==
    {"init_payment", "create_subaccount", "init_transfer", "bulk_transfer", "swap"}

RequiredKeys(o) ==
    CASE o = "init_payment" -> {"amount"}
      [] o = "create_subaccount" ->
            {"account_name", "bank_code", "account_number", "split_value", "split_type"}
      [] o = "init_transfer" -> {"account_number", "amount", "bank_code"}
      [] o = "bulk_transfer" -> {"bulk_data"}
      [] o = "swap" -> {"amount", "from", "to"}

OptionalParams(o) ==
    CASE o = "init_payment" ->
            {"currency", "first_name", "last_name", "phone_number", "email",
             "callback_url", "return_url", "customization", "subaccount_id",
             "tx_ref", "meta"}
      [] o = "create_subaccount" -> {"business_name"}
      [] o = "init_transfer" -> {"currency", "account_name", "reference"}
      [] o = "bulk_transfer" -> {"title", "currency"}
      [] o = "swap" -> {}

\* the parameter was given a value that is not empty
Supplied(v) == v \notin {None, Str(<<>>), Dict(<<>>)}

\* a request with a payload is in the transport's hands
Emitting(o) == pc = "inflight" /\ op = o /\ request.json # Absent

PayloadKeys == {request.json.p[i][1] : i \in 1..Len(request.json.p)}

\* C4: the key set of the emitted payload is exactly the operation's
\* required keys plus the optional parameters supplied with a non-empty
\* value; no key carries null; init_payment(amount=100) alone emits exactly
\* {"amount": "100"}.
C4_PayloadKeys ==
    \A o \in PayloadOps :
        (pc = "inflight" /\ op = o) =>
            /\ request.json # Absent
            /\ PayloadKeys =
                  RequiredKeys(o) \cup {n \in OptionalParams(o) : Supplied(args[n])}
            /\ Len(request.json.p) = Cardinality(PayloadKeys)
            /\ \A i \in 1..Len(request.json.p) : request.json.p[i][2] # None
            /\ (/\ o = "init_payment"
                /\ args["amount"] = IntV(100)
                /\ \A n \in OptionalParams(o) : args[n] = None)
                  => request.json = Dict(<< <<"amount", Str(<<"1", "0", "0">>)>> >>)

\* C4 witness: init_payment with one optional given empty, another a value
C4_Witness ==
    /\ Emitting("init_payment")
    /\ \E n \in OptionalParams("init_payment") : args[n] = Str(<<>>)
    /\ \E n \in OptionalParams("init_payment") : Supplied(args[n])

\* the decimal text Python's str() gives the amounts drawn
AmountText(v) ==
    CASE v = IntV(100) -> <<"1", "0", "0">>
      [] v = IntV(0) -> <<"0">>
      [] v = FloatV(2, 5) -> <<"2", ".", "5">>

\* C5: init_payment emits amount as the string form of the number,
\* init_transfer emits the number unchanged.
C5_AmountForms ==
    /\ (pc = "inflight" /\ op = "init_payment") =>
          Member(request.json, "amount") = Str(AmountText(args["amount"]))
    /\ (pc = "inflight" /\ op = "init_transfer") =>
          /\ Member(request.json, "amount") = args["amount"]
          /\ Member(request.json, "amount").t \in {"int", "float"}

\* C5 witness: init_payment(amount=100) has emitted "100"
C5_Witness ==
    /\ Emitting("init_payment")
    /\ args["amount"] = IntV(100)
    /\ Member(request.json, "amount").t = "str"

(* results *)

\* the text s reads as the number w.f
ReadsAs(s, w, f) ==
    \/ f = 0 /\ s = IntStr(w)
    \/ s = IntStr(w) \o <<".">> \o IntStr(f)

RECURSIVE Same(_, _)
\* the result value r is the data value d, in the form of the field's type
Same(r, d) ==
    \/ r = d
    \/ r.t = "float" /\ d.t = "int" /\ r.w = d.n /\ r.f = 0
    \/ r.t = "float" /\ d.t = "str" /\ ReadsAs(d.s, r.w, r.f)
    \/ r.t = "int" /\ d.t = "str" /\ d.s = IntStr(r.n)
    \/ r.t = "datetime" /\ d.t = "str" /\ r.s \in {d.s, <<"@">> \o d.s}
    \/ r.t = "datetime" /\ d.t = "int" /\ r.s = <<"@">> \o IntStr(d.n)
    \/ /\ r.t = "model" /\ d.t = "dict"
       /\ \A n \in DOMAIN r.v :
             IF Member(d, n) = Absent THEN r.v[n] = None
             ELSE Same(r.v[n], Member(d, n))

\* the value v has a form the declared type takes
Takes(type, v) ==
    CASE type = "str" -> v.t = "str"
      [] type = "float" -> NumberLike(v)
      [] type = "int" -> v.t = "int" \/ (v.t = "str" /\ AllDigits(v.s))
      [] type = "datetime" ->
            \/ v.t = "int"
            \/ v.t = "str" /\ (IsIsoDateTime(v.s) \/ AllDigits(v.s))
      [] type = "Currency" -> v \in {Str(<<"ETB">>), Str(<<"USD">>)}
      [] type = "Mode" -> v \in {Str(<<"test">>), Str(<<"live">>)}
      [] type = "Status" -> v \in {Str(<<"pending">>), Str(<<"success">>)}
      [] type = "ChapaCustomization" ->
            /\ v.t = "dict"
            /\ \A n \in {"title", "description", "logo"} :
                  Member(v, n) \in {Absent, None} \/ Member(v, n).t = "str"

\* every declared field of cls is in d with a value of its type, or is
\* optional and null or missing
WellTypedRecord(cls, d) ==
    \A i \in 1..Len(Schema(cls)) :
        LET f == Schema(cls)[i]
            v == Member(d, f.name)
        IN  IF v \in {Absent, None} THEN f.optional ELSE Takes(f.type, v)

\* the record result holds, field by field, what the object d holds
RecordOf(result, cls, d) ==
    /\ result.t = "model"
    /\ result.cls = cls
    /\ DOMAIN result.v = {Schema(cls)[i].name : i \in 1..Len(Schema(cls))}
    /\ \A n \in DOMAIN result.v :
          IF Member(d, n) = Absent THEN result.v[n] = None
          ELSE Same(result.v[n], Member(d, n))

\* a 2xx response to a single-record operation whose data has every
\* required field
RecordComplete ==
    /\ Responded /\ Is2xx /\ BodyIsObject
    /\ op \in TypedOps
    /\ BodyData # Absent
    /\ BodyData.t = "dict"
    /\ MissingIn(BodyData, RequiredFields(op)) = {}

\* a 2xx response to balances whose data is a list of objects that have
\* every required field
BalancesComplete ==
    /\ Responded /\ Is2xx /\ BodyIsObject
    /\ op = "balances"
    /\ BodyData # Absent
    /\ BodyData.t = "list"
    /\ \A i \in 1..Len(BodyData.l) :
          BodyData.l[i].t = "dict" /\ MissingIn(BodyData.l[i], BalanceFields) = {}

ReturnsDataOps ==
    {"get_transactions", "get_transaction_log", "init_transfer", "get_transfers", "swap"}

\* a 2xx response to an operation that returns data as it is
PassThrough ==
    /\ Responded /\ Is2xx /\ BodyIsObject
    /\ op \in ReturnsDataOps
    /\ BodyData # Absent

LowerCased(c) ==
    CASE c = <<"E", "T", "B">> -> <<"e", "t", "b">>
      [] c = <<"E", "t", "b">> -> <<"e", "t", "b">>
      [] c = <<"U", "S", "D">> -> <<"u", "s", "d">>
      [] c = <<"u", "s", "d">> -> <<"u", "s", "d">>

\* C7: balances() with no currency requests the path balances, balances(c)
\* requests balances/<c lower-cased>; that one path is requested once, with
\* GET and no body.
C7_BalancesPath ==
    (pc = "inflight" /\ op = "balances") =>
        /\ request.method = "get"
        /\ request.json = Absent
        /\ request.params = Absent
        /\ transport_calls = 1
        /\ request.url =
              <<"https:", "/", "/", "api.chapa.co", "/", "v1", "/">> \o
                (IF args["currency"] \in {None, Str(<<>>)} THEN <<"balances">>
                 ELSE <<"balances", "/">> \o LowerCased(args["currency"].s))

\* C7 witness: balances("USD") is requesting balances/usd
C7_Witness ==
    /\ pc = "inflight" /\ op = "balances"
    /\ args["currency"] = Str(<<"U", "S", "D">>)
    /\ SubSeq(request.url, Len(request.url) - 4, Len(request.url))
          = <<"balances", "/", "u", "s", "d">>

\* C8: a facade call makes at most one transport call, and exactly one
\* whenever it returns a result or fails at or after the transport stage; a
\* transport failure or a non-2xx response is not followed by another try.
C8_OneTransportCall ==
    /\ transport_calls <= 1
    /\ roundtrips <= transport_calls
    /\ pc = "inflight" => transport_calls = 1
    /\ (pc = "done" /\ (outcome.kind = "return" \/ "transport" \in Range(stages)))
          => transport_calls = 1

\* C8 witness: a call ended on a non-2xx response after its one round trip
C8_Witness ==
    /\ Responded /\ ~Is2xx
    /\ outcome.kind = "raise"
    /\ transport_calls = 1 /\ roundtrips = 1

\* a failure of the taxonomy: ChapaError (decode, remote, schema), a failure
\* the transport raised, or the ValueError or TypeError _send_request raises
\* before the transport call
TypedFailure ==
    /\ outcome.kind = "raise"
    /\ \/ outcome.exc = "ChapaError"
       \/ response = NoResponse /\ "transport" \in Range(stages)
       \/ stages = <<"build">> /\ outcome.exc \in {"ValueError", "TypeError"}

\* a result with nothing left out: for balances a record for every element
FullResult ==
    /\ outcome.kind = "return"
    /\ (op = "balances" /\ BodyData # Absent /\ BodyData.t = "list")
          => Len(outcome.value.l) = Len(BodyData.l)

C10_CloseFailsFast ==
    /\ acquired = 1
    /\ released = (IF closes > 0 THEN 1 ELSE 0)
    /\ closed <=> closes > 0
    /\ closed =>
          /\ pc # "inflight"
          /\ roundtrips = 0
          /\ pc = "done" => outcome.kind = "raise"

\* C10 witness: a facade call has failed after close() was called twice
C10_Witness ==
    /\ closed /\ closes = 2
    /\ pc = "done"
    /\ outcome.kind = "raise"
    /\ roundtrips = 0

\* the token and the base URL the client of Init was constructed with
GivenToken == <<"CHASECK_TEST">>

\* the request a call makes, or the exception it raises before making one,
\* when it is the only call on a client just constructed
AloneRequest(method, path, kwargs) ==
    PrepareRequest(method, path, kwargs, DefaultBaseUrl, BaseHeaders(GivenToken))

\* what a call that got the response r gives its caller when run alone
AloneOutcome(o, r) ==
    IF o = SendRequestName THEN Return(ResponseValue(r))
    ELSE AfterResponse(o, r).outcome

ClientUntouched ==
    /\ token = GivenToken
    /\ base_url = DefaultBaseUrl
    /\ base_headers = BaseHeaders(GivenToken)

FirstCallerAlone ==
    /\ pc = "inflight" =>
         request = AloneRequest(Facade(op, args).method, Facade(op, args).path,
                                Facade(op, args).kwargs)
    /\ Responded => outcome = AloneOutcome(op, response)

SecondCallerAlone ==
    /\ peer.pc = "inflight" =>
         peer.request = AloneRequest(peer.method, peer.path, peer.kwargs)
    /\ (peer.pc = "done" /\ peer.response = NoResponse
          /\ peer.outcome.exc \notin ConcurrentFailures) =>
         peer.outcome = AloneRequest(peer.method, peer.path, peer.kwargs)
    /\ (peer.pc = "done" /\ peer.response # NoResponse) =>
         peer.outcome = AloneOutcome(peer.op, peer.response)
    /\ peer.pc \in {"copied", "merged"} =>
         peer.headers \in {BaseHeaders(GivenToken),
                           MergedHeaders(BaseHeaders(GivenToken), peer.kwargs)}

\* C11: with two callers' calls interleaved on one client, whatever the
\* point each has reached, the request each call hands to the transport and
\* the outcome it gives are those of the same call run alone on a client just
\* constructed, and the client's token, base URL and base header set are
\* the ones it was constructed with, also after a call that brought extra
\* headers or failed.
C11_CallsIsolated == ClientUntouched /\ FirstCallerAlone /\ SecondCallerAlone

\* both callers' requests are in flight, and the second caller's call is
\* another one than the first's
C11_Witness ==
    /\ pc = "inflight" /\ peer.pc = "inflight"
    /\ peer.op # op
    /\ peer.request.url # request.url

\* a 2xx response with an envelope to one of the two listing operations
Listing ==
    /\ Responded /\ Is2xx /\ BodyIsObject
    /\ op \in {"get_transactions", "banks"}

NoFieldCheck == "validate" \notin Range(stages) /\ "map" \notin Range(stages)

\* C12 as stated: get_transactions and banks return, on a 2xx response,
\* the value of the envelope's key data as it is, without a field check and
\* without the envelope's other keys.
C12_DataVerbatim ==
    (Listing /\ BodyData # Absent) =>
        (outcome = Return(BodyData) /\ NoFieldCheck)

\* the Authorization value of a request handed to the httpx method
AuthorizationOf(req) == DictGet(req.headers, "Authorization", Absent)

Bearer(tok) == Str(<<"Bearer", " ">> \o tok)

\* C13: no step of the client changes the token it was constructed with,
\* and every request a step hands to the transport, for a facade call or
\* for a direct call with request options, carries the header
\* Authorization: Bearer <token> with that token.
C13_BearerToken ==
    [][/\ token' = token
       /\ request'.kind = "request" => AuthorizationOf(request') = Bearer(token)]_vars

\* C13 witness: a client constructed with the second token has a direct
\* call with query parameters in flight, its request carrying that token
C13_Witness ==
    /\ token = <<"CHASECK_LIVE">>
    /\ DirectInFlight
    /\ HasKey(args.kwargs, "params")
    /\ request.kind = "request"
    /\ AuthorizationOf(request) = Bearer(<<"CHASECK_LIVE">>)

\* a direct call of _send_request whose arguments are still at hand: it
\* failed before the transport was called, or its request is in flight
DirectCallAtHand ==
    /\ op = SendRequestName /\ pc \in {"inflight", "done"}
    /\ args # NoArgs

ExtraOf(kwargs) == DictGet(kwargs, "headers", Absent)

\* the header map hs is base merged with extra: the keys of both, extra's
\* value where it has the key, base's value elsewhere
IsMergeOf(hs, base, extra) ==
    /\ hs.t = "dict"
    /\ Keys(hs) = Keys(base) \cup Keys(extra)
    /\ \A k \in Keys(hs) :
          Member(hs, k) = IF k \in Keys(extra) THEN Member(extra, k)
                          ELSE Member(base, k)

\* C14: a direct call with the method get or post, a path and extra headers
\* that are a mapping hands the transport a request whose header map is the
\* base header set merged with the extra headers, the extra value standing
\* where both have the key.
C14_ExtraHeadersSent ==
    (/\ DirectCallAtHand
     /\ args.method \in HttpMethod
     /\ ExtraOf(args.kwargs) # Absent /\ ExtraOf(args.kwargs).t = "dict"
     /\ ExtraOf(args.kwargs).p # <<>>
     /\ ~(HasKey(args.kwargs, "json") /\ args.method = "get"))
       => /\ request.kind = "request"
          /\ IsMergeOf(request.headers, BaseHeaders(token), ExtraOf(args.kwargs))

\* C15: a direct call with a method name other than get and post fails
\* with ValueError before the transport is called: no request is made.
C15_OnlyGetAndPost ==
    (DirectCallAtHand /\ args.method \notin HttpMethod) =>
        /\ pc = "done"
        /\ outcome.kind = "raise" /\ outcome.exc = "ValueError"
        /\ request = NoRequest /\ transport_calls = 0

RECURSIVE RStrip(_, _)
\* s without its trailing c's
RStrip(s, c) ==
    IF s # <<>> /\ s[Len(s)] = c THEN RStrip(SubSeq(s, 1, Len(s) - 1), c) ELSE s

\* the path of the call whose request is in flight
PathInFlight == IF op = SendRequestName THEN args.path ELSE Facade(op, args).path

\* C16: whether or not the base URL ends with a slash and however many
\* slashes the path begins with, the URL of the request is the base URL,
\* one slash, and the path.
C16_OneSeparatingSlash ==
    (pc = "inflight" /\ request.kind = "request") =>
        request.url = RStrip(base_url, "/") \o <<"/">> \o LStrip(PathInFlight, "/")

\* the stages every facade call begins with
FirstStages == <<"build", "transport", "decode", "classify">>

StageRank(s) == CHOOSE i \in 1..6 : (FirstStages \o <<"validate", "map">>)[i] = s

IsPrefix(a, b) == Len(a) <= Len(b) /\ a = SubSeq(b, 1, Len(a))

LastStage == stages[Len(stages)]

\* the caller's failure is the one the last stage run raised
FailureOfLastStage ==
    CASE LastStage = "build" -> outcome.exc \in {"ValueError", "TypeError"}
      [] LastStage = "transport" ->
            /\ response = NoResponse
            /\ outcome.exc \in TransportFailures \/ outcome = ClosedClientError
      [] LastStage = "decode" ->
            response.body.k = "text" /\ outcome = ExtractJsonData(response)
      [] LastStage = "classify" ->
            IF Is2xx THEN outcome.exc \in {"AttributeError", "TypeError"}
            ELSE outcome = CheckResponse(response, response.body.j)
      [] LastStage = "validate" ->
            /\ Is2xx
            /\ outcome.exc \in {"ChapaError", "TypeError"}
            /\ op \in TypedOps =>
                  outcome = CheckDataFields(GetData(response.body.j, Dict(<<>>)).value,
                                            RequiredFields(op))
      [] LastStage = "map" ->
            Is2xx /\ outcome.exc = "ValidationError"

\* a call that returned ran every stage it has
AllStagesRan ==
    CASE op \in TypedOps -> stages = FirstStages \o <<"validate", "map">>
      [] op = "balances" ->
            /\ IsPrefix(FirstStages, stages)
            /\ Len(stages) = 4 + 2 * Len(outcome.value.l)
      [] OTHER -> stages = FirstStages

\* C17 as stated: the stages of a facade call run in the order build,
\* transport, decode, classify, validate, map, each after the ones before
\* it in that order; a failure ends the call with the failing stage's
\* failure, and a non-2xx response is followed by no validation or mapping.
C17_StagesInOrder ==
    (pc = "done" /\ op \in Ops) =>
        /\ \A i, j \in 1..Len(stages) :
              i < j => StageRank(stages[i]) < StageRank(stages[j])
        /\ outcome.kind = "raise" => FailureOfLastStage
        /\ (Responded /\ ~Is2xx) => (outcome.kind = "raise" /\ NoFieldCheck)

\* C17 amended: every facade call runs build, transport, decode, classify
\* in this order, then field validation, then result mapping; balances runs
\* field validation and result mapping once for each item of data, in that
\* order for each item and item after item.  Once a stage fails no later
\* stage runs and the caller receives the failure of that stage (a
\* transport exception as it was raised); on a non-2xx response there is no
\* field validation and no result mapping; a call that returns has run
\* every stage.
C17_Pipeline ==
    (pc = "done" /\ op \in Ops) =>
        /\ IsPrefix(SubSeq(stages, 1, IF Len(stages) < 4 THEN Len(stages) ELSE 4),
                    FirstStages)
        /\ \A i \in 5..Len(stages) :
              stages[i] = IF (i - 5) % 2 = 0 THEN "validate" ELSE "map"
        /\ op # "balances" => Len(stages) <= 6
        /\ outcome.kind = "raise" => FailureOfLastStage
        /\ outcome.kind = "return" => AllStagesRan
        /\ (Responded /\ ~Is2xx) => (outcome.kind = "raise" /\ NoFieldCheck)

\* C17 witness: balances validated and mapped its first item, and the
\* validation of the second item failed the call
C17_Witness ==
    /\ pc = "done" /\ op = "balances"
    /\ stages = FirstStages \o <<"validate", "map", "validate">>
    /\ outcome.kind = "raise" /\ outcome.exc = "ChapaError"
    /\ constructed = 1

\* the orders n keys can be written in
Orders ==
    [n \in 0..4 |-> {f \in [1..n -> 1..n] : \A i, j \in 1..n : i # j => f[i] # f[j]}]

\* the JSON object j with its keys written in every order
Reorderings(j) == {Dict([i \in 1..Len(j.p) |-> j.p[f[i]]]) : f \in Orders[Len(j.p)]}

\* the JSON object j with one more top-level key, first or last
Extensions(j) ==
    IF HasKey(j, "meta") THEN {}
    ELSE {Dict(Append(j.p, MetaPair)), Dict(<<MetaPair>> \o j.p)}

\* Python's ==: two dicts are equal when they hold the same keys with the
\* same values, in whatever order
PyEq(a, b) ==
    IF a.t = "dict" /\ b.t = "dict"
    THEN Keys(a) = Keys(b) /\ \A k \in Keys(a) : Member(a, k) = Member(b, k)
    ELSE a = b

\* the same return value, or the same exception with the same message
SameOutcome(a, b) ==
    /\ a.kind = b.kind
    /\ a.kind = "return" => PyEq(a.value, b.value)
    /\ a.kind = "raise" => (a.exc = b.exc /\ a.msg = b.msg)

\* the outcome of the running operation had the body been j
OutcomeFor(j) == AfterResponse(op, [response EXCEPT !.body.j = j]).outcome

EnvelopeRead == Responded /\ BodyIsObject /\ Len(response.body.j.p) <= 4

\* C18 as stated: for every operation, a body with the same top-level
\* keys and values in another order, and a body with one more top-level
\* key, give the outcome the body received gave.
C18_ReadByName ==
    EnvelopeRead =>
        \A j \in Reorderings(response.body.j) \cup Extensions(response.body.j) :
            SameOutcome(outcome, OutcomeFor(j))

====
